---- MODULE Spec2Model ----
(***************************************************************************)
(* WebInsight-API: the sliding-window rate limiter (rate_limiter.py), the  *)
(* retry loop of the Perplexity analyzer (analyzer.py) and the scrape and  *)
(* analyze request paths (app.py), as state machines.                      *)
(***************************************************************************)
EXTENDS Integers, Sequences, FiniteSets, TLC

\* ------------------------------------------------------------------ bounds
MaxTime == 3
MaxCalls == 4
MaxLimit == 2
MaxWindow == 2
MaxRetries == 3
MaxConcTime == 2
MaxElems == 5
MaxChunks == 5
MaxMetas == 3

\* ------------------------------------------------------- program constants
\* api_limiter = RateLimiter(limit=10, window=60)
ApiLimit == 10
ApiWindow == 60
\* analysis_limiter = RateLimiter(limit=5, window=60)
AnalysisLimit == 5
AnalysisWindow == 60
\* if p_tags and len(p_tags) > 3
MinParagraphs == 3
\* if len(p.get_text().strip()) > 40
MinParagraphLen == 40
\* if len(article_content) > 500
MinJoinedLen == 500
\* if len(text) > 200
MinBlockLen == 200

\* Client identifiers (request.remote_addr values).
Clients == {"a", "b"}

VARIABLES
    limit,      \* RateLimiter.limit
    window,     \* RateLimiter.window
    clients,    \* RateLimiter.clients: client_id -> list of timestamps
    now,        \* the clock read by time.time()
    wake,       \* the instant the cleanup thread's time.sleep(window) ends
    observed,   \* the client whose calls are logged
    log,        \* the observed client's calls so far: <<[t, ok]>>
    last,       \* the last operation: its kind, client, pre-state and result
    solo        \* the limiter as it would be had only `observed` called it

limVars == <<limit, window, clients, now, wake, observed, log, last, solo>>

VARIABLES
    api_key,     \* PerplexityAnalyzer.api_key is set (truthy)
    max_retries, \* PerplexityAnalyzer.max_retries
    operation,   \* what the i-th call of _call_api meets at the remote service
    epc,         \* where analyze() is: idle, try, sleep, returned, raised
    attempt,     \* the loop variable of analyze()
    events,      \* calls, log records and sleeps of analyze(), in order
    outcome      \* what analyze() returned or raised

execVars == <<api_key, max_retries, operation, epc, attempt, events, outcome>>

VARIABLES
    lock,       \* RateLimiter.lock: the thread holding it, or "free"
    tpc,        \* each thread's position in is_rate_limited / cleanup
    tclient,    \* the client_id argument of each worker's call
    tcur,       \* each thread's local current_time
    tseen,      \* the list each worker's comprehension was evaluated over
    tresult,    \* the value each worker's call returned
    todo,       \* the clients the cleanup pass has still to visit
    to_delete,  \* the local to_delete of the cleanup pass
    gseen,      \* the map as the cleanup pass found it
    admitted,   \* the admissions so far: <<[client, t]>>
    peak        \* the most workers ever inside calls for one client at once

concVars == <<lock, tpc, tclient, tcur, tseen, tresult, todo, to_delete,
              gseen, admitted, peak>>

VARIABLES
    configured, \* PERPLEXITY_API_KEY is set
    limiters,   \* the clients maps of api_limiter and analysis_limiter
    req         \* the request in hand: endpoint, client, position, what it
                \* has done so far (trace) and its response

reqVars == <<configured, limiters, req>>

VARIABLES
    soup,            \* the parsed document: its elements in document order
    mpc,             \* where _extract_article_content is: method1..4, done
    article_content  \* what _extract_article_content returned, and by which
                     \* method

contVars == <<soup, mpc, article_content>>

VARIABLES
    text,       \* the argument of _clean_text
    cpc,        \* how many times the text has been through _clean_text
    cleaned,    \* _clean_text(text)
    recleaned   \* _clean_text(_clean_text(text))

cleanVars == <<text, cpc, cleaned, recleaned>>

VARIABLES
    metas,      \* the meta elements of the document, in document order
    visited,    \* how many of them the OGP loop has been through
    og_data     \* the og_data dict

ogVars == <<metas, visited, og_data>>

parseVars == <<contVars, cleanVars, ogVars>>

vars == <<limVars, execVars, concVars, reqVars, parseVars>>

notLim == <<execVars, concVars, reqVars, parseVars>>
notExec == <<limVars, concVars, reqVars, parseVars>>
notConcLim == <<execVars, reqVars, parseVars>>
notReq == <<limVars, execVars, concVars, parseVars>>
notCont == <<limVars, execVars, concVars, reqVars, cleanVars, ogVars>>
notClean == <<limVars, execVars, concVars, reqVars, contVars, ogVars>>
notOg == <<limVars, execVars, concVars, reqVars, contVars, cleanVars>>

\* ------------------------------------------------- rate_limiter.py helpers

\* clients.get(c, []): the stored sequence of a client, empty when absent.
Entries(cl, c) == IF c \in DOMAIN cl THEN cl[c] ELSE <<>>

\* Mutant: the pruning comprehension keeps every timestamp.
Fresh_KeepsAll(entries, current_time, w) == entries

\* [t for t in entries if current_time - t < self.window]
Fresh(entries, current_time, w) ==
    SelectSeq(entries, LAMBDA t : current_time - t < w)

\* Mutant: a rejected attempt is recorded as well.
IsRateLimited_RecordsRejected(cl, client_id, current_time, lim, w) ==
    LET withKey == [c \in DOMAIN cl \cup {client_id} |-> Entries(cl, c)]
        pruned == [withKey EXCEPT ![client_id] = Fresh(@, current_time, w)]
    IN  [clients |-> [pruned EXCEPT ![client_id] = Append(@, current_time)],
         limited |-> Len(pruned[client_id]) >= lim]

\* Mutant: the limit test is off by one (> instead of >=).
IsRateLimited_OffByOne(cl, client_id, current_time, lim, w) ==
    LET withKey == [c \in DOMAIN cl \cup {client_id} |-> Entries(cl, c)]
        pruned == [withKey EXCEPT ![client_id] = Fresh(@, current_time, w)]
    IN  IF Len(pruned[client_id]) > lim
        THEN [clients |-> pruned, limited |-> TRUE]
        ELSE [clients |-> [pruned EXCEPT ![client_id] = Append(@, current_time)],
              limited |-> FALSE]

RECURSIVE TotalLen(_, _)
TotalLen(cl, S) ==
    IF S = {} THEN 0
    ELSE LET c == CHOOSE x \in S : TRUE
         IN  Len(cl[c]) + TotalLen(cl, S \ {c})

\* Mutant: the count tested against the limit is that of all clients together.
IsRateLimited_GlobalCount(cl, client_id, current_time, lim, w) ==
    LET withKey == [c \in DOMAIN cl \cup {client_id} |-> Entries(cl, c)]
        pruned == [c \in DOMAIN withKey |-> Fresh(withKey[c], current_time, w)]
    IN  IF TotalLen(pruned, DOMAIN pruned) >= lim
        THEN [clients |-> pruned, limited |-> TRUE]
        ELSE [clients |-> [pruned EXCEPT ![client_id] = Append(@, current_time)],
              limited |-> FALSE]

\* RateLimiter.is_rate_limited, the body under the lock: the map after the
\* call and the value returned (True = rate limited = not allowed).
IsRateLimited(cl, client_id, current_time, lim, w) ==
    LET withKey == [c \in DOMAIN cl \cup {client_id} |-> Entries(cl, c)]
        pruned == [withKey EXCEPT ![client_id] = Fresh(@, current_time, w)]
    IN  IF Len(pruned[client_id]) >= lim
        THEN [clients |-> pruned, limited |-> TRUE]
        ELSE [clients |-> [pruned EXCEPT ![client_id] = Append(@, current_time)],
              limited |-> FALSE]

\* Mutant: the emptied clients are not deleted.
CleanupOldEntries_KeepsEmpty(cl, current_time, w) ==
    [c \in DOMAIN cl |-> Fresh(cl[c], current_time, w)]

\* RateLimiter._cleanup_old_entries, the body under the lock.
CleanupOldEntries(cl, current_time, w) ==
    LET pruned == [c \in DOMAIN cl |-> Fresh(cl[c], current_time, w)]
        emptied == {c \in DOMAIN pruned : pruned[c] = <<>>}
    IN  [c \in DOMAIN pruned \ emptied |-> pruned[c]]

NoClients == [c \in {} |-> <<>>]

\* ------------------------------------------------------ limiter: actions

LimInit ==
    /\ limit \in 1..MaxLimit
    /\ window \in 1..MaxWindow
    /\ clients = NoClients
    /\ now = 0
    /\ wake = window
    /\ observed \in Clients
    /\ log = <<>>
    /\ last = [op |-> "none", client |-> "a", pre |-> NoClients, time |-> 0,
               limited |-> FALSE, soloLimited |-> FALSE]
    /\ solo = NoClients

\* The limiter before any specification of it runs.
LimIdle ==
    /\ limit = 1 /\ window = 1 /\ clients = NoClients /\ now = 0 /\ wake = 1
    /\ observed = "a" /\ log = <<>> /\ solo = NoClients
    /\ last = [op |-> "none", client |-> "a", pre |-> NoClients, time |-> 0,
               limited |-> FALSE, soloLimited |-> FALSE]

\* The clock advances.
Tick ==
    /\ now < MaxTime
    /\ now' = now + 1
    /\ UNCHANGED <<limit, window, clients, wake, observed, log, last, solo>>
    /\ UNCHANGED notLim

\* One call of is_rate_limited(c).
Admit(c) ==
    /\ c = observed => Len(log) < MaxCalls
    /\ LET r == IsRateLimited(clients, c, now, limit, window)
           s == IsRateLimited(solo, c, now, limit, window)
       IN  /\ clients' = r.clients
           /\ solo' = IF c = observed THEN s.clients ELSE solo
           /\ log' = IF c = observed
                     THEN Append(log, [t |-> now, ok |-> ~r.limited])
                     ELSE log
           /\ last' = [op |-> "admit", client |-> c, pre |-> clients,
                       time |-> now, limited |-> r.limited,
                       soloLimited |-> IF c = observed THEN s.limited
                                       ELSE r.limited]
    /\ UNCHANGED <<limit, window, now, wake, observed>>
    /\ UNCHANGED notLim

\* One pass of the cleanup thread: time.sleep(window) has returned.
Cleanup ==
    /\ now >= wake
    /\ clients' = CleanupOldEntries(clients, now, window)
    /\ solo' = CleanupOldEntries(solo, now, window)
    /\ wake' = now + window
    /\ last' = [op |-> "cleanup", client |-> "a", pre |-> clients,
                time |-> now, limited |-> FALSE, soloLimited |-> FALSE]
    /\ UNCHANGED <<limit, window, now, observed, log>>
    /\ UNCHANGED notLim

\* ------------------------------------------------------- limiter: claims

\* The timestamps of `entries` within the last w seconds before `at`.
WithinWindow(entries, at, w) == SelectSeq(entries, LAMBDA t : t > at - w)

\* C1: one admit call first prunes the client's timestamps to those within
\* the last windowSeconds; if the pruned count is >= limit it returns
\* not-allowed and the client's sequence equals the pruned sequence (the
\* attempt is not recorded), otherwise it appends the current timestamp and
\* returns allowed.
C1_AdmitPrunesThenDecides ==
    last.op = "admit" =>
        LET c == last.client
            pruned == WithinWindow(Entries(last.pre, c), last.time, window)
        IN  /\ c \in DOMAIN clients
            /\ IF Len(pruned) >= limit
               THEN last.limited /\ clients[c] = pruned
               ELSE ~last.limited /\ clients[c] = Append(pruned, last.time)

\* C1 witness: the observed client has been rejected at its quota before, and
\* its latest call pruned expired timestamps and was admitted.
C1_Witness ==
    /\ last.op = "admit"
    /\ last.client = observed
    /\ ~last.limited
    /\ Entries(last.pre, observed) # <<>>
    /\ clients[observed] = <<last.time>>
    /\ \E i \in 1..Len(log) : ~log[i].ok

\* The observed client's calls admitted at times in (lo, hi].
AdmittedIn(lo, hi) ==
    {i \in 1..Len(log) : log[i].ok /\ log[i].t > lo /\ log[i].t <= hi}

\* C2: for every instant t, the calls of a client admitted within the
\* trailing window (t - windowSeconds, t] number at most limit.
C2_SlidingWindowBound ==
    \A t \in 0..(now + window) :
        Cardinality(AdmittedIn(t - window, t)) <= limit

\* C2 witness: more than limit calls were admitted over time, a call was
\* rejected, and the window ending now is full.
C2_Witness ==
    /\ Cardinality(AdmittedIn(-1, now)) > limit
    /\ \E i \in 1..Len(log) : ~log[i].ok
    /\ Cardinality(AdmittedIn(now - window, now)) = limit

\* Call j of the observed client finds no recorded request still in the window.
StartsEmpty(j) ==
    \A k \in 1..(j - 1) : log[k].ok => log[j].t - log[k].t >= window

\* C3: starting with no recorded requests, limit+1 calls made within less
\* than windowSeconds are allowed for the first limit of them and refused for
\* call limit+1; a call made more than windowSeconds after all admitted calls
\* is allowed, whatever rejected calls were made in between.
C3_BurstThenRecovery ==
    /\ \A j \in 1..Len(log) :
          (/\ StartsEmpty(j)
           /\ j + limit <= Len(log)
           /\ log[j + limit].t - log[j].t < window)
          => /\ \A i \in j..(j + limit - 1) : log[i].ok
             /\ ~log[j + limit].ok
    /\ \A i \in 1..Len(log) :
          (\A k \in 1..(i - 1) : log[k].ok => log[i].t - log[k].t > window)
          => log[i].ok

\* C3 witness: limit = 2; two admitted calls and a rejected third within the
\* window, then a fourth call past the window, admitted.
C3_Witness ==
    /\ limit = 2
    /\ Len(log) = 4
    /\ log[1].ok /\ log[2].ok /\ ~log[3].ok /\ log[4].ok
    /\ log[3].t - log[1].t < window
    /\ log[4].t - log[2].t > window

\* C4: calls of other clients never change the observed client's results or
\* stored sequence (both equal those of a limiter only the observed client
\* calls), and an admit call of one client leaves every other client's entry
\* unchanged.
C4_ClientsDoNotInterfere ==
    /\ (observed \in DOMAIN clients) <=> (observed \in DOMAIN solo)
    /\ Entries(clients, observed) = Entries(solo, observed)
    /\ (last.op = "admit" /\ last.client = observed)
          => last.limited = last.soloLimited
    /\ last.op = "admit" =>
          \A c \in Clients \ {last.client} :
              /\ (c \in DOMAIN clients) <=> (c \in DOMAIN last.pre)
              /\ Entries(clients, c) = Entries(last.pre, c)

\* C4 witness: the observed client is admitted while another client's quota
\* is exhausted.
C4_Witness ==
    /\ last.op = "admit"
    /\ last.client = observed
    /\ ~last.limited
    /\ \E b \in Clients \ {observed} :
          /\ b \in DOMAIN clients
          /\ Len(Fresh(clients[b], now, window)) = limit

\* The request workers (thread-per-request) and the daemon cleanup thread.
Workers == {"w1", "w2", "w3"}
Threads == Workers \cup {"gc"}

\* The threads before any specification of them runs.
ConcIdle ==
    /\ lock = "free"
    /\ tpc = [t \in Threads |-> IF t = "gc" THEN "sleep" ELSE "idle"]
    /\ tclient = [t \in Workers |-> "a"]
    /\ tcur = [t \in Threads |-> 0]
    /\ tseen = [t \in Workers |-> <<>>]
    /\ tresult = [t \in Workers |-> "none"]
    /\ todo = {}
    /\ to_delete = {}
    /\ gseen = NoClients
    /\ admitted = <<>>
    /\ peak = 0

\* The state right after a cleanup pass that ran at last.time: every stored
\* timestamp lies within [last.time - window, last.time] and no client maps
\* to an empty sequence.
PrunedAndCompact ==
    \A c \in DOMAIN clients :
        /\ clients[c] # <<>>
        /\ \A i \in 1..Len(clients[c]) :
              /\ clients[c][i] >= last.time - window
              /\ clients[c][i] <= last.time

\* C16 as stated: right after a cleanup pass every stored timestamp lies
\* within [now - windowSeconds, now], no client maps to an empty sequence,
\* and no timestamp within [now - windowSeconds, now] has been removed.
C16_KeepsClosedWindow ==
    last.op = "cleanup" =>
        /\ PrunedAndCompact
        /\ \A c \in DOMAIN last.pre :
              Entries(clients, c) =
                  SelectSeq(last.pre[c], LAMBDA t : t >= last.time - window)

\* C16 as amended: right after a cleanup pass, which the thread starts no
\* sooner than windowSeconds after the previous one, every stored timestamp
\* lies within [now - windowSeconds, now], no client maps to an empty
\* sequence, and the timestamps removed are exactly those at least
\* windowSeconds old: one exactly windowSeconds old is removed, every newer
\* one is kept.
C16_CleanupPass ==
    last.op = "cleanup" =>
        /\ PrunedAndCompact
        /\ \A c \in DOMAIN last.pre :
              Entries(clients, c) = WithinWindow(last.pre[c], last.time, window)
        /\ DOMAIN clients \subseteq DOMAIN last.pre
        /\ last.time >= window
        /\ wake = last.time + window

\* C16 witness: a pass has just deleted one client whose timestamps had all
\* expired and kept another client's timestamps.
C16_Witness ==
    /\ last.op = "cleanup"
    /\ now = last.time
    /\ \E c \in DOMAIN last.pre : c \notin DOMAIN clients
    /\ \E c \in DOMAIN clients : clients[c] = last.pre[c]

\* ------------------------------------------------ analyzer.py: the executor

\* What the remote service can do on one call of _call_api: answer with
\* choices, fail in the transport (a RequestException without a response),
\* answer with an HTTP error status (a RequestException with a response), or
\* answer without choices.
ServiceBehaviours ==
    {[kind |-> "ok", text |-> r] : r \in {"r1", "r2"}}
    \cup {[kind |-> "request_error", text |-> m] : m \in {"m1", "m2"}}
    \cup {[kind |-> "http_error", text |-> "m3"]}
    \cup {[kind |-> "no_choices", text |-> ""]}

\* f"Perplexity API call error: {str(e)}", messages being token sequences.
Wrap(msg) == <<"Perplexity API call error">> \o msg

Event(kind, msg) == [kind |-> kind, msg |-> msg]

\* PerplexityAnalyzer._call_api against one behaviour of the service: what it
\* returns or raises and the records it logs itself.
CallApi(b) ==
    CASE b.kind = "ok" ->
            [ok |-> TRUE, value |-> <<b.text>>, logs |-> <<>>]
      [] b.kind = "request_error" ->
            [ok |-> FALSE, value |-> Wrap(<<b.text>>),
             logs |-> <<Event("api_error_log", Wrap(<<b.text>>))>>]
      [] b.kind = "http_error" ->
            [ok |-> FALSE, value |-> Wrap(<<b.text>>),
             logs |-> <<Event("api_error_log", Wrap(<<b.text>>)),
                        Event("api_response_log", <<b.text>>)>>]
      [] OTHER ->
            [ok |-> FALSE, value |-> <<"Invalid response from Perplexity API">>,
             logs |-> <<>>]

\* Mutant: the loop runs one attempt fewer.
InRange_OneFewer(i, n) == i < n - 1

\* for attempt in range(self.max_retries): attempt i is in the range.
InRange(i, n) == i < n

\* Mutant: the last attempt but one is already taken for the last.
AttemptsRemain_OffByOne(i, n) == i < n - 2

\* if attempt < self.max_retries - 1
AttemptsRemain(i, n) == i < n - 1

\* Mutant: the final failure is reported only as "max retries reached".
OnFailure_NoFinalWarning(i, n, e) ==
    IF AttemptsRemain(i, n)
    THEN [logs |-> <<Event("warning_log", e)>>, next |-> "sleep"]
    ELSE [logs |-> <<Event("max_retries_log", e)>>, next |-> "raised"]

\* Mutant: the loop sleeps after the final failure too.
OnFailure_SleepsOnLast(i, n, e) ==
    IF AttemptsRemain(i, n)
    THEN [logs |-> <<Event("warning_log", e)>>, next |-> "sleep"]
    ELSE [logs |-> <<Event("warning_log", e), Event("max_retries_log", e)>>,
          next |-> "sleep"]

\* The except clause of the retry loop for the failure e of attempt i: the
\* records it logs and where it goes.
OnFailure(i, n, e) ==
    IF AttemptsRemain(i, n)
    THEN [logs |-> <<Event("warning_log", e)>>, next |-> "sleep"]
    ELSE [logs |-> <<Event("warning_log", e), Event("max_retries_log", e)>>,
          next |-> "raised"]

NoOutcome == [kind |-> "pending", value |-> <<>>]

ExecInit ==
    /\ api_key \in BOOLEAN
    /\ max_retries \in 0..MaxRetries
    /\ operation \in [1..MaxRetries -> ServiceBehaviours]
    /\ epc = "idle"
    /\ attempt = 0
    /\ events = <<>>
    /\ outcome = NoOutcome

\* The analyzer before any specification of it runs.
ExecIdle ==
    /\ api_key = TRUE /\ max_retries = 0 /\ operation = <<>>
    /\ epc = "idle" /\ attempt = 0 /\ events = <<>> /\ outcome = NoOutcome

\* analyze() is entered: the key check, the prompt, the first pass of the loop.
AnalyzeEnter ==
    /\ epc = "idle"
    /\ IF ~api_key
       THEN /\ epc' = "raised"
            /\ outcome' = [kind |-> "error",
                           value |-> <<"Perplexity API key is not configured">>]
       ELSE IF InRange(0, max_retries)
       THEN /\ epc' = "try"
            /\ outcome' = outcome
       ELSE /\ epc' = "returned"
            /\ outcome' = [kind |-> "none", value |-> <<>>]
    /\ UNCHANGED <<api_key, max_retries, operation, attempt, events>>
    /\ UNCHANGED notExec

\* One attempt whose _call_api returns: analyze() returns the result.
AttemptSucceeds ==
    /\ epc = "try"
    /\ LET r == CallApi(operation[attempt + 1])
       IN  /\ r.ok
           /\ events' = events \o <<Event("call", <<>>)>> \o r.logs
           /\ outcome' = [kind |-> "result", value |-> r.value]
    /\ epc' = "returned"
    /\ UNCHANGED <<api_key, max_retries, operation, attempt>>
    /\ UNCHANGED notExec

\* One attempt whose _call_api raises: the except clause runs, up to the
\* sleep or the final raise.
AttemptFails ==
    /\ epc = "try"
    /\ LET r == CallApi(operation[attempt + 1])
           h == OnFailure(attempt, max_retries, r.value)
       IN  /\ ~r.ok
           /\ events' = events \o <<Event("call", <<>>)>> \o r.logs \o h.logs
           /\ epc' = h.next
           /\ outcome' = IF h.next = "raised"
                         THEN [kind |-> "error", value |-> Wrap(r.value)]
                         ELSE outcome
    /\ UNCHANGED <<api_key, max_retries, operation, attempt>>
    /\ UNCHANGED notExec

\* time.sleep(self.retry_delay) returns and the loop goes to its next pass.
SleepReturns ==
    /\ epc = "sleep"
    /\ events' = Append(events, Event("sleep", <<>>))
    /\ attempt' = attempt + 1
    /\ IF InRange(attempt + 1, max_retries)
       THEN epc' = "try" /\ outcome' = outcome
       ELSE epc' = "returned" /\ outcome' = [kind |-> "none", value |-> <<>>]
    /\ UNCHANGED <<api_key, max_retries, operation>>
    /\ UNCHANGED notExec

\* ------------------------------------------------------- executor: claims

\* The number of events of one kind recorded so far.
Count(kind) == Cardinality({i \in 1..Len(events) : events[i].kind = kind})

ExecDone == epc \in {"returned", "raised"}

Fails(j) == operation[j].kind # "ok"

\* C6: when the operation fails on attempts 1..k-1 and succeeds on attempt
\* k <= maxAttempts, the call returns that success result, the operation is
\* invoked exactly k times, and exactly k-1 failure events and no "max retries
\* reached" event are logged by the loop.
C6_SuccessOnAttemptK ==
    \A k \in 1..MaxRetries :
        (/\ api_key
         /\ k <= max_retries
         /\ \A j \in 1..(k - 1) : Fails(j)
         /\ ~Fails(k)
         /\ ExecDone)
        => /\ epc = "returned"
           /\ outcome = [kind |-> "result", value |-> <<operation[k].text>>]
           /\ Count("call") = k
           /\ Count("warning_log") = k - 1
           /\ Count("max_retries_log") = 0
           /\ Count("sleep") = k - 1

\* C6 witness: maxAttempts = 3, fail, fail, succeed, and the call has returned.
C6_Witness ==
    /\ api_key /\ max_retries = 3
    /\ Fails(1) /\ Fails(2) /\ ~Fails(3)
    /\ epc = "returned"
    /\ outcome.kind = "result"

AlwaysFails == \A j \in 1..max_retries : Fails(j)

\* The records the retry loop itself logs: one per failed attempt, and the
\* "max retries reached" record.
LoopLogEvents == Count("warning_log") + Count("max_retries_log")

\* C7 as stated: an operation that always fails, with maxAttempts = 3, is
\* invoked exactly 3 times and produces exactly 3 failure log events, one of
\* which is the terminal one, and the call raises the terminal error wrapping
\* the last failure's message.
C7_ThreeEventsOneTerminal ==
    (api_key /\ max_retries = 3 /\ AlwaysFails /\ ExecDone)
    => /\ epc = "raised"
       /\ Count("call") = 3
       /\ LoopLogEvents = 3
       /\ Count("max_retries_log") = 1
       /\ outcome = [kind |-> "error",
                     value |-> Wrap(CallApi(operation[3]).value)]

\* C7 as amended: an operation that always fails is invoked exactly
\* maxAttempts times (3 for maxAttempts = 3); the loop logs one failure event
\* per attempt and, after the last of them, one additional event marked
\* terminal (4 events for maxAttempts = 3); the call raises the terminal
\* error wrapping the message of the last failure.
C7_AlwaysFailsTerminal ==
    (api_key /\ max_retries >= 1 /\ AlwaysFails /\ ExecDone)
    => /\ epc = "raised"
       /\ Count("call") = max_retries
       /\ Count("warning_log") = max_retries
       /\ Count("max_retries_log") = 1
       /\ LoopLogEvents = max_retries + 1
       /\ events[Len(events)] =
              Event("max_retries_log", CallApi(operation[max_retries]).value)
       /\ events[Len(events) - 1] =
              Event("warning_log", CallApi(operation[max_retries]).value)
       /\ outcome = [kind |-> "error",
                     value |-> Wrap(CallApi(operation[max_retries]).value)]

\* C7 witness: maxAttempts = 3, three failures whose first and last messages
\* differ, and the call has raised.
C7_Witness ==
    /\ api_key /\ max_retries = 3 /\ AlwaysFails
    /\ CallApi(operation[1]).value # CallApi(operation[3]).value
    /\ epc = "raised"
    /\ Count("call") = 3

\* C8: for every maxAttempts, a call of the executor ends after invoking the
\* operation at least once and at most maxAttempts times, with the
\* operation's result or a terminal error.
C8_ResultOrTerminalError ==
    (api_key /\ ExecDone)
    => /\ Count("call") >= 1
       /\ Count("call") <= max_retries
       /\ outcome.kind \in {"result", "error"}

\* What the retry loop itself does, in order: its calls of the operation, its
\* own log records and its sleeps (the records _call_api logs are left out).
LoopTrace ==
    SelectSeq(events, LAMBDA e : e.kind \in {"call", "warning_log",
                                             "max_retries_log", "sleep"})

\* The number of calls among the first i steps of a trace.
CallsUpTo(tr, i) == Cardinality({k \in 1..i : tr[k].kind = "call"})

\* C17: in one call of analyze, every failed attempt, the last included, is
\* logged right after it fails and before the loop sleeps or raises; after a
\* failed attempt the loop sleeps exactly once if and only if attempts
\* remain and then calls again; nothing follows a success; and after the
\* final failure comes exactly one "max retries reached" record, no sleep,
\* and the terminal error.
C17_ReportThenWaitOrRaise ==
    LET tr == LoopTrace
        n == Len(tr)
    IN  \A i \in 1..n :
          LET j == CallsUpTo(tr, i)
              k == tr[i].kind
          IN  /\ k = "call" =>
                   /\ i = 1 \/ tr[i - 1].kind = "sleep"
                   /\ IF Fails(j)
                      THEN /\ i < n
                           /\ tr[i + 1] = Event("warning_log",
                                                CallApi(operation[j]).value)
                      ELSE i = n /\ epc = "returned"
              /\ k = "warning_log" =>
                   /\ i > 1 /\ tr[i - 1].kind = "call"
                   /\ IF j < max_retries
                      THEN IF i < n THEN tr[i + 1].kind = "sleep"
                                    ELSE epc = "sleep"
                      ELSE /\ i + 1 = n
                           /\ tr[n] = Event("max_retries_log", tr[i].msg)
              /\ k = "sleep" =>
                   /\ i > 1 /\ tr[i - 1].kind = "warning_log"
                   /\ j < max_retries
                   /\ IF i < n THEN tr[i + 1].kind = "call" ELSE epc = "try"
              /\ k = "max_retries_log" =>
                   /\ i > 1 /\ tr[i - 1].kind = "warning_log"
                   /\ i = n /\ j = max_retries
                   /\ epc = "raised" /\ outcome.kind = "error"

\* C17 witness: two attempts fail with different messages; the loop slept
\* once, between them, and raised after the second.
C17_Witness ==
    /\ max_retries = 2
    /\ epc = "raised"
    /\ Count("call") = 2
    /\ Count("sleep") = 1
    /\ Count("warning_log") = 2
    /\ Count("max_retries_log") = 1
    /\ operation[1].text # operation[2].text

ExecNext ==
    \/ AnalyzeEnter
    \/ AttemptSucceeds
    \/ AttemptFails
    \/ SleepReturns

\* ------------------------------------- rate_limiter.py: threads and the lock

\* The positions at which a thread reads or writes self.clients.
Critical == {"time", "ensure", "prune_read", "prune_write", "check", "append",
             "loop", "delete", "release"}

\* Mutant: the lock is taken whether or not another thread holds it.
CanAcquire_Always(holder) == TRUE

\* threading.Lock: `with self.lock` enters only when the lock is free.
CanAcquire(holder) == holder = "free"

ConcInit ==
    /\ limit \in 1..MaxLimit
    /\ window \in 1..MaxWindow
    /\ clients = NoClients
    /\ now = 0
    /\ wake = window
    /\ observed = "a" /\ log = <<>> /\ solo = NoClients
    /\ last = [op |-> "none", client |-> "a", pre |-> NoClients, time |-> 0,
               limited |-> FALSE, soloLimited |-> FALSE]
    /\ ConcIdle

\* The clock advances while the threads run.
ConcTick ==
    /\ now < MaxConcTime
    /\ now' = now + 1
    /\ UNCHANGED <<limit, window, clients, wake, observed, log, last, solo>>
    /\ UNCHANGED <<notConcLim, concVars>>

\* The workers inside a call for client c.
InCall(c) == {t \in Workers : tpc[t] \notin {"idle", "done"} /\ tclient[t] = c}

\* A worker enters is_rate_limited(c) and reaches `with self.lock`.
Call(t, c) ==
    /\ tpc[t] = "idle"
    /\ tpc' = [tpc EXCEPT ![t] = "acquire"]
    /\ tclient' = [tclient EXCEPT ![t] = c]
    /\ peak' = IF Cardinality(InCall(c)) + 1 > peak
               THEN Cardinality(InCall(c)) + 1 ELSE peak
    /\ UNCHANGED <<lock, tcur, tseen, tresult, todo, to_delete, gseen, admitted>>
    /\ UNCHANGED <<limVars, notConcLim>>

\* `with self.lock`: the thread takes the lock.
Acquire(t) ==
    /\ tpc[t] = "acquire"
    /\ CanAcquire(lock)
    /\ lock' = t
    /\ tpc' = [tpc EXCEPT ![t] = "time"]
    /\ UNCHANGED <<tclient, tcur, tseen, tresult, todo, to_delete, gseen,
                   admitted, peak>>
    /\ UNCHANGED <<limVars, notConcLim>>

\* current_time = time.time()
ReadTime(t) ==
    /\ t \in Workers
    /\ tpc[t] = "time"
    /\ tcur' = [tcur EXCEPT ![t] = now]
    /\ tpc' = [tpc EXCEPT ![t] = "ensure"]
    /\ UNCHANGED <<lock, tclient, tseen, tresult, todo, to_delete, gseen,
                   admitted, peak>>
    /\ UNCHANGED <<limVars, notConcLim>>

\* if client_id not in self.clients: self.clients[client_id] = []
EnsureEntry(t) ==
    /\ tpc[t] = "ensure"
    /\ clients' = [c \in DOMAIN clients \cup {tclient[t]} |-> Entries(clients, c)]
    /\ tpc' = [tpc EXCEPT ![t] = "prune_read"]
    /\ UNCHANGED <<limit, window, now, wake, observed, log, last, solo>>
    /\ UNCHANGED <<lock, tclient, tcur, tseen, tresult, todo, to_delete, gseen,
                   admitted, peak>>
    /\ UNCHANGED notConcLim

\* The comprehension reads self.clients[client_id].
PruneRead(t) ==
    /\ tpc[t] = "prune_read"
    /\ tseen' = [tseen EXCEPT ![t] = Entries(clients, tclient[t])]
    /\ tpc' = [tpc EXCEPT ![t] = "prune_write"]
    /\ UNCHANGED <<lock, tclient, tcur, tresult, todo, to_delete, gseen,
                   admitted, peak>>
    /\ UNCHANGED <<limVars, notConcLim>>

\* self.clients[client_id] = [the filtered list]
PruneWrite(t) ==
    /\ tpc[t] = "prune_write"
    /\ clients' = [c \in DOMAIN clients \cup {tclient[t]} |->
                      IF c = tclient[t] THEN Fresh(tseen[t], tcur[t], window)
                      ELSE clients[c]]
    /\ tpc' = [tpc EXCEPT ![t] = "check"]
    /\ UNCHANGED <<limit, window, now, wake, observed, log, last, solo>>
    /\ UNCHANGED <<lock, tclient, tcur, tseen, tresult, todo, to_delete, gseen,
                   admitted, peak>>
    /\ UNCHANGED notConcLim

\* if len(self.clients[client_id]) >= self.limit: return True
CheckLimit(t) ==
    /\ tpc[t] = "check"
    /\ IF Len(Entries(clients, tclient[t])) >= limit
       THEN /\ tresult' = [tresult EXCEPT ![t] = "limited"]
            /\ tpc' = [tpc EXCEPT ![t] = "release"]
       ELSE /\ tresult' = tresult
            /\ tpc' = [tpc EXCEPT ![t] = "append"]
    /\ UNCHANGED <<lock, tclient, tcur, tseen, todo, to_delete, gseen,
                   admitted, peak>>
    /\ UNCHANGED <<limVars, notConcLim>>

\* self.clients[client_id].append(current_time); return False
AppendRequest(t) ==
    /\ tpc[t] = "append"
    /\ clients' = [c \in DOMAIN clients \cup {tclient[t]} |->
                      IF c = tclient[t]
                      THEN Append(Entries(clients, c), tcur[t])
                      ELSE clients[c]]
    /\ tresult' = [tresult EXCEPT ![t] = "allowed"]
    /\ admitted' = Append(admitted, [client |-> tclient[t], t |-> tcur[t]])
    /\ tpc' = [tpc EXCEPT ![t] = "release"]
    /\ UNCHANGED <<limit, window, now, wake, observed, log, last, solo>>
    /\ UNCHANGED <<lock, tclient, tcur, tseen, todo, to_delete, gseen, peak>>
    /\ UNCHANGED notConcLim

\* Leaving `with self.lock` (the return of is_rate_limited).
Release(t) ==
    /\ t \in Workers
    /\ tpc[t] = "release"
    /\ lock' = "free"
    /\ tpc' = [tpc EXCEPT ![t] = "done"]
    /\ tcur' = [tcur EXCEPT ![t] = 0]
    /\ tseen' = [tseen EXCEPT ![t] = <<>>]
    /\ UNCHANGED <<tclient, tresult, todo, to_delete, gseen, admitted, peak>>
    /\ UNCHANGED <<limVars, notConcLim>>

\* The cleanup thread: time.sleep(self.window) returns.
GcWake ==
    /\ tpc["gc"] = "sleep"
    /\ now >= wake
    /\ tpc' = [tpc EXCEPT !["gc"] = "acquire"]
    /\ UNCHANGED <<lock, tclient, tcur, tseen, tresult, todo, to_delete, gseen,
                   admitted, peak>>
    /\ UNCHANGED <<limVars, notConcLim>>

\* current_time = time.time(); to_delete = []; the loop over items() starts.
GcStart ==
    /\ tpc["gc"] = "time"
    /\ tcur' = [tcur EXCEPT !["gc"] = now]
    /\ todo' = DOMAIN clients
    /\ to_delete' = {}
    /\ gseen' = clients
    /\ tpc' = [tpc EXCEPT !["gc"] = "loop"]
    /\ UNCHANGED <<lock, tclient, tseen, tresult, admitted, peak>>
    /\ UNCHANGED <<limVars, notConcLim>>

\* One pass of the loop: prune one client, mark it when it became empty.
GcPrune(c) ==
    /\ tpc["gc"] = "loop"
    /\ c \in todo
    /\ LET pruned == Fresh(Entries(clients, c), tcur["gc"], window)
       IN  /\ clients' = [d \in DOMAIN clients \cup {c} |->
                             IF d = c THEN pruned ELSE clients[d]]
           /\ to_delete' = IF pruned = <<>> THEN to_delete \cup {c} ELSE to_delete
    /\ todo' = todo \ {c}
    /\ UNCHANGED <<limit, window, now, wake, observed, log, last, solo>>
    /\ UNCHANGED <<lock, tpc, tclient, tcur, tseen, tresult, gseen, admitted, peak>>
    /\ UNCHANGED notConcLim

\* The loop over items() is exhausted.
GcLoopEnd ==
    /\ tpc["gc"] = "loop"
    /\ todo = {}
    /\ tpc' = [tpc EXCEPT !["gc"] = "delete"]
    /\ UNCHANGED <<lock, tclient, tcur, tseen, tresult, todo, to_delete, gseen,
                   admitted, peak>>
    /\ UNCHANGED <<limVars, notConcLim>>

\* for client_id in to_delete: del self.clients[client_id]
GcDelete ==
    /\ tpc["gc"] = "delete"
    /\ clients' = [c \in DOMAIN clients \ to_delete |-> clients[c]]
    /\ tpc' = [tpc EXCEPT !["gc"] = "release"]
    /\ UNCHANGED <<limit, window, now, wake, observed, log, last, solo>>
    /\ UNCHANGED <<lock, tclient, tcur, tseen, tresult, todo, to_delete, gseen,
                   admitted, peak>>
    /\ UNCHANGED notConcLim

\* The pass leaves the lock and the thread sleeps window seconds again.
GcRelease ==
    /\ tpc["gc"] = "release"
    /\ lock' = "free"
    /\ wake' = now + window
    /\ tpc' = [tpc EXCEPT !["gc"] = "sleep"]
    /\ tcur' = [tcur EXCEPT !["gc"] = 0]
    /\ to_delete' = {}
    /\ gseen' = NoClients
    /\ UNCHANGED <<limit, window, clients, now, observed, log, last, solo>>
    /\ UNCHANGED <<tclient, tseen, tresult, todo, admitted, peak>>
    /\ UNCHANGED notConcLim

\* --------------------------------------------------- threads: the claim

\* The admissions of client c with timestamps in (lo, hi].
AdmissionsIn(c, lo, hi) ==
    {i \in 1..Len(admitted) :
        admitted[i].client = c /\ admitted[i].t > lo /\ admitted[i].t <= hi}

\* What self.clients[c] must hold while worker t is inside its critical
\* section, if no other thread has written the list since t read it.
Expected(t) ==
    CASE tpc[t] = "prune_write" -> tseen[t]
      [] tpc[t] \in {"check", "append"} -> Fresh(tseen[t], tcur[t], window)
      [] tpc[t] = "release" ->
            IF tresult[t] = "allowed"
            THEN Append(Fresh(tseen[t], tcur[t], window), tcur[t])
            ELSE Fresh(tseen[t], tcur[t], window)
      [] OTHER -> Entries(clients, tclient[t])

\* C5: every read and write of the clients map happens with the limiter's
\* lock held, at most one thread at a time; the calls for one client
\* serialize, so no worker's read-modify-write of a list is interleaved with
\* another write, at most limit calls per client are admitted within one
\* window however many workers call at once, and the cleanup pass sees every
\* list either as it found it or fully pruned by itself.
C5_LockSerializes ==
    /\ \A t \in Threads : tpc[t] \in Critical => lock = t
    /\ Cardinality({t \in Threads : tpc[t] \in Critical}) <= 1
    /\ \A t \in Workers : Entries(clients, tclient[t]) = Expected(t)
    /\ \A c \in Clients : \A at \in 0..(now + window) :
          Cardinality(AdmissionsIn(c, at - window, at)) <= limit
    /\ tpc["gc"] \in {"loop", "delete"} =>
          /\ DOMAIN clients = DOMAIN gseen
          /\ \A c \in DOMAIN gseen :
                clients[c] = IF c \in todo THEN gseen[c]
                             ELSE Fresh(gseen[c], tcur["gc"], window)

\* C5 witness: three workers were inside calls for the same client at once,
\* limit = 2, all three calls are over and the admissions still within the
\* window, two were admitted
\* and one refused.
C5_Witness ==
    /\ limit = 2
    /\ peak = 3
    /\ \A t \in Workers : tpc[t] = "done" /\ tclient[t] = "a"
    /\ \A i \in 1..Len(admitted) : now - admitted[i].t < window
    /\ Cardinality({t \in Workers : tresult[t] = "allowed"}) = 2
    /\ Cardinality({t \in Workers : tresult[t] = "limited"}) = 1

ConcNext ==
    \/ ConcTick
    \/ \E t \in Workers, c \in Clients : Call(t, c)
    \/ \E t \in Threads : Acquire(t)
    \/ \E t \in Workers : ReadTime(t)
    \/ \E t \in Workers : EnsureEntry(t)
    \/ \E t \in Workers : PruneRead(t)
    \/ \E t \in Workers : PruneWrite(t)
    \/ \E t \in Workers : CheckLimit(t)
    \/ \E t \in Workers : AppendRequest(t)
    \/ \E t \in Workers : Release(t)
    \/ GcWake
    \/ GcStart
    \/ \E c \in Clients : GcPrune(c)
    \/ GcLoopEnd
    \/ GcDelete
    \/ GcRelease

\* ------------------------------------------------- app.py: request paths

Endpoints == {"scrape", "analyze"}

\* The limiter each route is decorated with, by its parameters.
LimitOf(e) == IF e = "scrape" THEN ApiLimit ELSE AnalysisLimit
WindowOf(e) == IF e = "scrape" THEN ApiWindow ELSE AnalysisWindow

NoRequest == [endpoint |-> "scrape", client |-> "a", rpc |-> "none",
              trace |-> <<>>,
              response |-> [status |-> 0, error |-> "none", fields |-> {}]]

Step(kind, on, ok) == [kind |-> kind, on |-> on, ok |-> ok]

Response(status, error, fields) ==
    [status |-> status, error |-> error, fields |-> fields]

\* Mutant: the decorator calls the view whatever the limiter answered.
Gate_IgnoresLimiter(limited) == "view"

\* rate_limit.wrapped: a limited client gets the 429 response, any other
\* the decorated view.
Gate(limited) == IF limited THEN "reject" ELSE "view"

\* Mutant: a failed fetch is swallowed and the view goes on to parse.
AfterFetch_Swallows(ok) == "parse"

\* The try/except around scraper.scrape(url): on any exception the view
\* raises ScrapingError, otherwise it goes on to parse_content.
AfterFetch(ok) == IF ok THEN "parse" ELSE "scraping_error"

ScrapeFields == {"url", "title", "description", "og_data", "content_length",
                 "content_preview"}
AnalyzeFields == {"url", "title", "description", "analysis", "metadata"}

ReqIdle ==
    /\ configured = TRUE
    /\ limiters = [e \in Endpoints |-> NoClients]
    /\ req = NoRequest

ReqInit ==
    /\ configured \in BOOLEAN
    /\ limiters = [e \in Endpoints |-> NoClients]
    /\ req = NoRequest

\* A POST to /api/scrape or /api/analyze arrives from client c.
Arrive(e, c) ==
    /\ req.rpc \in {"none", "done"}
    /\ req' = [NoRequest EXCEPT !.endpoint = e, !.client = c, !.rpc = "auth"]
    /\ UNCHANGED <<configured, limiters>>
    /\ UNCHANGED notReq

\* setup_security.authenticate (before_request): an unauthenticated request
\* is answered before the route is entered.
Authenticate(ok) ==
    /\ req.rpc = "auth"
    /\ req' = IF ok
              THEN [req EXCEPT !.rpc = "limit"]
              ELSE [req EXCEPT !.rpc = "done",
                               !.response = Response(401, "auth", {"error"})]
    /\ UNCHANGED <<configured, limiters>>
    /\ UNCHANGED notReq

\* rate_limit.wrapped: the route's limiter is asked about the caller.
RateLimit ==
    /\ req.rpc = "limit"
    /\ LET e == req.endpoint
           r == IsRateLimited(limiters[e], req.client, now, LimitOf(e),
                              WindowOf(e))
           t == Append(req.trace, Step("admit", e, ~r.limited))
       IN  /\ limiters' = [limiters EXCEPT ![e] = r.clients]
           /\ req' = IF Gate(r.limited) = "reject"
                     THEN [req EXCEPT !.rpc = "done", !.trace = t,
                              !.response = Response(429, "rate_limit",
                                                    {"error", "rate_limit"})]
                     ELSE [req EXCEPT !.rpc = "validate", !.trace = t]
    /\ UNCHANGED configured
    /\ UNCHANGED notReq

\* The view validates the body; analyze_url then checks the API key.
Validate(valid) ==
    /\ req.rpc = "validate"
    /\ req' = IF ~valid
              THEN [req EXCEPT !.rpc = "done",
                       !.response = Response(400, "ValidationError", {"error"})]
              ELSE IF req.endpoint = "analyze" /\ ~configured
              THEN [req EXCEPT !.rpc = "done",
                       !.response = Response(500, "AnalysisError", {"error"})]
              ELSE [req EXCEPT !.rpc = "fetch"]
    /\ UNCHANGED <<configured, limiters>>
    /\ UNCHANGED notReq

\* scraper.scrape(url) returns the page or raises.
Fetch(ok) ==
    /\ req.rpc = "fetch"
    /\ LET t == Append(req.trace, Step("fetch", req.endpoint, ok))
       IN  req' = IF AfterFetch(ok) = "scraping_error"
                  THEN [req EXCEPT !.rpc = "done", !.trace = t,
                           !.response = Response(400, "ScrapingError",
                                                 {"error"})]
                  ELSE [req EXCEPT !.rpc = "parse", !.trace = t]
    /\ UNCHANGED <<configured, limiters>>
    /\ UNCHANGED notReq

\* scraper.parse_content(html_content); scrape_url without an API key
\* answers with the extracted fields alone.
Parse ==
    /\ req.rpc = "parse"
    /\ LET t == Append(req.trace, Step("parse", req.endpoint, TRUE))
       IN  req' = IF req.endpoint = "scrape" /\ ~configured
                  THEN [req EXCEPT !.rpc = "done", !.trace = t,
                           !.response = Response(200, "none", ScrapeFields)]
                  ELSE [req EXCEPT !.rpc = "analyze", !.trace = t]
    /\ UNCHANGED <<configured, limiters>>
    /\ UNCHANGED notReq

\* Mutant: scrape_url lets the analysis error fail the request, as
\* analyze_url does.
AnalysisResponse_AlwaysFails(e, ok) ==
    IF ok
    THEN Response(200, "none",
                  IF e = "scrape" THEN ScrapeFields \cup {"summary"}
                  ELSE AnalyzeFields)
    ELSE Response(500, "AnalysisError", {"error"})

\* What each view answers once analyzer.analyze has returned or raised:
\* scrape_url keeps its result and adds summary or summary_error, analyze_url
\* answers with the analysis or raises AnalysisError.
AnalysisResponse(e, ok) ==
    IF e = "scrape"
    THEN IF ok
         THEN Response(200, "none", ScrapeFields \cup {"summary"})
         ELSE Response(200, "none", ScrapeFields \cup {"summary_error"})
    ELSE IF ok
         THEN Response(200, "none", AnalyzeFields)
         ELSE Response(500, "AnalysisError", {"error"})

\* analyzer.analyze(...) returns the text or raises its terminal error.
Analyze(ok) ==
    /\ req.rpc = "analyze"
    /\ LET t == Append(req.trace, Step("analysis", req.endpoint, ok))
           resp == AnalysisResponse(req.endpoint, ok)
       IN  req' = [req EXCEPT !.rpc = "done", !.trace = t, !.response = resp]
    /\ UNCHANGED <<configured, limiters>>
    /\ UNCHANGED notReq

\* ---------------------------------------------------- request paths: claims

\* The steps of the request in hand that touch the network or the analyzer.
Work == {"fetch", "parse", "analysis"}

\* C9: on both endpoints the endpoint's own limiter is asked about the caller
\* before any fetch, extraction or analysis of the request; every such step
\* follows an allowed answer of that limiter for this request, and a request
\* the limiter rejects does none of them.
C9_LimiterGatesFirst ==
    LET t == req.trace
    IN  /\ \A i \in 1..Len(t) :
              t[i].kind \in Work =>
                  \E j \in 1..(i - 1) : t[j] = Step("admit", req.endpoint, TRUE)
        /\ \A i \in 1..Len(t) :
              t[i].kind = "admit" => i = 1 /\ t[i].on = req.endpoint
        /\ (\E i \in 1..Len(t) : t[i].kind = "admit" /\ t[i].ok)
              => Entries(limiters[req.endpoint], req.client) # <<>>
        /\ (\E i \in 1..Len(t) : t[i].kind = "admit" /\ ~t[i].ok)
              => /\ \A j \in 1..Len(t) : t[j].kind \notin Work
                 /\ req.rpc = "done"
                 /\ req.response.status = 429

\* C9 witness: a caller whose analyze quota is used up, but whose scrape
\* quota is not, is rejected on /api/analyze with nothing fetched or analysed.
C9_Witness ==
    /\ req.endpoint = "analyze"
    /\ req.rpc = "done"
    /\ req.trace = <<Step("admit", "analyze", FALSE)>>
    /\ req.response.status = 429
    /\ Len(Entries(limiters["analyze"], req.client)) = AnalysisLimit
    /\ Len(Entries(limiters["scrape"], req.client)) \in 1..(ApiLimit - 1)

\* C10: on both endpoints, once the fetch of a request has failed no analysis
\* is invoked for it and the request ends with a scraping error.
C10_FailedFetchNoAnalysis ==
    LET t == req.trace
    IN  (\E i \in 1..Len(t) : t[i].kind = "fetch" /\ ~t[i].ok)
        => /\ \A j \in 1..Len(t) : t[j].kind # "analysis"
           /\ req.rpc = "done"
           /\ req.response.error = "ScrapingError"
           /\ req.response.status = 400

\* C10 witness: with the API key configured, an admitted scrape request whose
\* fetch failed has ended with the scraping error.
C10_Witness ==
    /\ configured
    /\ req.endpoint = "scrape"
    /\ req.rpc = "done"
    /\ req.trace = <<Step("admit", "scrape", TRUE), Step("fetch", "scrape", FALSE)>>
    /\ req.response.error = "ScrapingError"


\* The fields parse_content extracted, as scrape_url returns them.
Extracted == {"title", "description", "og_data", "content_length",
              "content_preview"}

\* The request in hand fetched its page and its analysis ended in an error.
AnalysisFailed ==
    /\ \E i \in 1..Len(req.trace) :
          req.trace[i].kind = "fetch" /\ req.trace[i].ok
    /\ \E i \in 1..Len(req.trace) :
          req.trace[i].kind = "analysis" /\ ~req.trace[i].ok

\* C11: when the fetch succeeded and the analysis ends in a terminal error,
\* the scrape request still succeeds and returns the extracted title,
\* description, Open-Graph data and content fields with an error indicator
\* for the analysis and no summary; the analyze request fails as a whole and
\* returns no extracted field.
C11_PartialFailure ==
    AnalysisFailed =>
        /\ req.rpc = "done"
        /\ req.endpoint = "scrape" =>
              /\ req.response.status = 200
              /\ req.response.error = "none"
              /\ Extracted \subseteq req.response.fields
              /\ "summary_error" \in req.response.fields
              /\ "summary" \notin req.response.fields
        /\ req.endpoint = "analyze" =>
              /\ req.response.status = 500
              /\ req.response.error = "AnalysisError"
              /\ req.response.fields \cap (Extracted \cup AnalyzeFields) = {}

\* C11 witness: a scrape request whose analysis failed has been answered
\* with the extracted fields and the summary error.
C11_Witness ==
    /\ req.endpoint = "scrape"
    /\ AnalysisFailed
    /\ req.rpc = "done"
    /\ req.response.status = 200
    /\ "summary_error" \in req.response.fields


ReqNext ==
    \/ \E e \in Endpoints, c \in Clients : Arrive(e, c)
    \/ \E ok \in BOOLEAN : Authenticate(ok)
    \/ RateLimit
    \/ \E valid \in BOOLEAN : Validate(valid)
    \/ \E ok \in BOOLEAN : Fetch(ok)
    \/ Parse
    \/ \E ok \in BOOLEAN : Analyze(ok)

\* ------------------------------------- scraper.py: _extract_article_content

\* The text of an element: `body` characters that neither start nor end with
\* whitespace, between `lead` and `trail` characters of whitespace.
Text(lead, body, trail) == [lead |-> lead, body |-> body, trail |-> trail]

\* len(text)
TextLen(t) == t.lead + t.body + t.trail

\* text.strip()
StripText(t) == Text(0, t.body, 0)

\* An element of the document: its tag, class and id attributes and what
\* get_text() returns for it.
Element(tag, class, id, t) ==
    [tag |-> tag, class |-> class, id |-> id, text |-> t]

\* The elements documents are built of.
ElementKinds ==
    { Element("article", "", "", Text(0, 0, 0)),
      Element("div", "content", "", Text(1, 50, 0)),
      Element("p", "", "", Text(1, 40, 0)),
      Element("p", "", "", Text(0, 50, 0)),
      Element("p", "", "", Text(1, 150, 1)),
      Element("div", "", "", Text(1, 200, 0)),
      Element("div", "", "", Text(0, 250, 0)),
      Element("section", "", "", Text(0, 300, 1)) }

Docs == UNION {[1..n -> ElementKinds] : n \in 0..MaxElems}

\* The positions of the elements of a document that are among the wanted
\* ones, in document order (soup.select, soup.find_all).
Matching(doc, wanted) ==
    SelectSeq([i \in 1..Len(doc) |-> i], LAMBDA i : doc[i] \in wanted)

\* 'article, .article, .post, .content, main, #main, #content'
Selector(e) ==
    \/ e.tag \in {"article", "main"}
    \/ e.class \in {"article", "post", "content"}
    \/ e.id \in {"main", "content"}

\* What _extract_article_content returns: the method that produced it, the
\* positions of the elements it is the text of, and the text.
Content(method, src, t) == [method |-> method, src |-> src, text |-> t]

NoContent == Content(0, <<>>, Text(0, 0, 0))

Missed == [found |-> FALSE, content |-> NoContent]

Found(c) == [found |-> TRUE, content |-> c]

\* Mutant: a container whose text is empty is passed over.
ArticleContainers_SkipsEmpty(doc) ==
    LET article_containers ==
            Matching(doc, {e \in ElementKinds :
                             Selector(e) /\ TextLen(e.text) > 0})
    IN  IF article_containers # <<>>
        THEN Found(Content(1, <<article_containers[1]>>,
                           doc[article_containers[1]].text))
        ELSE Missed

\* Method 1: the text of the first element the selector matches.
ArticleContainers(doc) ==
    LET article_containers == Matching(doc, {e \in ElementKinds : Selector(e)})
    IN  IF article_containers # <<>>
        THEN Found(Content(1, <<article_containers[1]>>,
                           doc[article_containers[1]].text))
        ELSE Missed

\* The sum of the trimmed text lengths of the elements at positions idx.
RECURSIVE SumOfLengths(_, _)
SumOfLengths(doc, idx) ==
    IF idx = <<>> THEN 0
    ELSE TextLen(StripText(doc[Head(idx)].text)) + SumOfLengths(doc, Tail(idx))

\* len('\n\n'.join(...)) over the trimmed texts of the elements at idx.
JoinedLen(doc, idx) ==
    IF idx = <<>> THEN 0 ELSE SumOfLengths(doc, idx) + 2 * (Len(idx) - 1)

\* Mutant: the joined paragraphs are used whatever their length.
ParagraphTags_AnyLength(doc) ==
    LET p_tags == Matching(doc, {e \in ElementKinds : e.tag = "p"})
        kept == SelectSeq(p_tags, LAMBDA i :
                    TextLen(StripText(doc[i].text)) > MinParagraphLen)
    IN  IF p_tags # <<>> /\ Len(p_tags) > MinParagraphs
        THEN Found(Content(2, kept, Text(0, JoinedLen(doc, kept), 0)))
        ELSE Missed

\* Method 2: the paragraphs longer than 40 characters, joined by blank lines,
\* when there are more than 3 paragraphs and the result exceeds 500
\* characters.
ParagraphTags(doc) ==
    LET p_tags == Matching(doc, {e \in ElementKinds : e.tag = "p"})
        kept == SelectSeq(p_tags, LAMBDA i :
                    TextLen(StripText(doc[i].text)) > MinParagraphLen)
        joined == JoinedLen(doc, kept)
    IN  IF p_tags # <<>> /\ Len(p_tags) > MinParagraphs
           /\ joined > MinJoinedLen
        THEN Found(Content(2, kept, Text(0, joined, 0)))
        ELSE Missed

\* len(x[1]) for the block at position i: the length of its trimmed text.
BlockLen(doc, i) == TextLen(StripText(doc[i].text))

\* list.sort(key=..., reverse=True) keeps blocks of equal length in their
\* original order.
RECURSIVE SortByLength(_, _)
SortByLength(doc, blocks) ==
    IF blocks = <<>> THEN <<>>
    ELSE LET n == Len(blocks)
             sorted == SortByLength(doc, SubSeq(blocks, 1, n - 1))
             ahead == Cardinality({k \in 1..Len(sorted) :
                          BlockLen(doc, sorted[k]) >= BlockLen(doc, blocks[n])})
         IN  SubSeq(sorted, 1, ahead) \o <<blocks[n]>>
             \o SubSeq(sorted, ahead + 1, Len(sorted))

\* Mutant: a block of exactly 200 characters is a candidate too.
TextBlocks_Inclusive(doc) ==
    LET text_blocks ==
            Matching(doc, {e \in ElementKinds :
                /\ e.tag \in {"div", "section"}
                /\ TextLen(StripText(e.text)) >= MinBlockLen})
        sorted == SortByLength(doc, text_blocks)
    IN  IF text_blocks # <<>>
        THEN Found(Content(3, <<sorted[1]>>, StripText(doc[sorted[1]].text)))
        ELSE Missed

\* Method 3: the trimmed text of the longest div or section among those
\* longer than 200 characters.
TextBlocks(doc) ==
    LET text_blocks ==
            Matching(doc, {e \in ElementKinds :
                /\ e.tag \in {"div", "section"}
                /\ TextLen(StripText(e.text)) > MinBlockLen})
        sorted == SortByLength(doc, text_blocks)
    IN  IF text_blocks # <<>>
        THEN Found(Content(3, <<sorted[1]>>, StripText(doc[sorted[1]].text)))
        ELSE Missed

\* Method 4: the markdown of the whole document, every text block of it
\* followed by a blank line.
Markdown(doc) ==
    LET all == [i \in 1..Len(doc) |-> i]
        blocks == SelectSeq(all, LAMBDA i : doc[i].text.body > 0)
    IN  Content(4, all, Text(0, SumOfLengths(doc, blocks) + 2 * Len(blocks), 0))

ContInit ==
    /\ soup \in Docs
    /\ mpc = "method1"
    /\ article_content = NoContent

ContIdle ==
    /\ soup = <<>>
    /\ mpc = "idle"
    /\ article_content = NoContent

\* One method of _extract_article_content: return what it found, or go on to
\* the next method.
Try(r, next) ==
    /\ IF r.found
       THEN mpc' = "done" /\ article_content' = r.content
       ELSE mpc' = next /\ article_content' = article_content
    /\ UNCHANGED soup
    /\ UNCHANGED notCont

Method1 == mpc = "method1" /\ Try(ArticleContainers(soup), "method2")

Method2 == mpc = "method2" /\ Try(ParagraphTags(soup), "method3")

Method3 == mpc = "method3" /\ Try(TextBlocks(soup), "method4")

Method4 == mpc = "method4" /\ Try(Found(Markdown(soup)), "done")

\* ------------------------------------------------------ extraction: claims

\* The positions of the document's Method 1 containers, in document order.
Containers == Matching(soup, {e \in ElementKinds : Selector(e)})

\* The positions of the document's paragraphs, in document order.
Paragraphs == Matching(soup, {e \in ElementKinds : e.tag = "p"})

\* The positions of the divs and sections whose trimmed text is longer than
\* n characters, in document order.
BlocksLongerThan(n) ==
    Matching(soup, {e \in ElementKinds :
                /\ e.tag \in {"div", "section"}
                /\ TextLen(StripText(e.text)) > n})

\* C12: whenever the document has an element matching the Method 1
\* selectors, the content is the text of the first such element in document
\* order, however short and whatever paragraphs and blocks there are, and
\* Methods 2, 3 and 4 are never entered.
C12_FirstContainerWins ==
    Containers # <<>> =>
        /\ mpc \in {"method1", "done"}
        /\ mpc = "done" =>
              /\ article_content =
                     Content(1, <<Containers[1]>>, soup[Containers[1]].text)
              /\ \A i \in 1..(Containers[1] - 1) : ~Selector(soup[i])

\* C12 witness: the first container is empty and comes after a block longer
\* than 200 characters and before another container; it is the content.
C12_Witness ==
    /\ mpc = "done"
    /\ Len(Containers) >= 2
    /\ TextLen(soup[Containers[1]].text) = 0
    /\ TextLen(soup[Containers[2]].text) > 0
    /\ BlocksLongerThan(MinBlockLen) # <<>>
    /\ BlocksLongerThan(MinBlockLen)[1] < Containers[1]
    /\ article_content.method = 1
    /\ article_content.src = <<Containers[1]>>

\* No container, 5 paragraphs of 50 characters each, no div or section
\* longer than 200 characters.
FiveShortParagraphs ==
    /\ Containers = <<>>
    /\ Len(Paragraphs) = 5
    /\ \A k \in 1..5 : TextLen(StripText(soup[Paragraphs[k]].text)) = 50
    /\ BlocksLongerThan(MinBlockLen) = <<>>

\* C13 as stated: with no container, 5 paragraphs of 50 characters each and
\* no div or section longer than 200 characters, Method 2 is selected and
\* not Method 4.
C13_FiveParagraphsMethod2 ==
    (mpc = "done" /\ FiveShortParagraphs) => article_content.method = 2

\* C13 as amended: with no container, 5 paragraphs of 50 characters each and
\* no div or section longer than 200 characters, the paragraphs joined by
\* blank lines are 258 characters long, Method 2 is not selected and Method
\* 4 is; Method 2 is selected exactly when there is no container, there are
\* more than 3 paragraphs, and those longer than 40 characters, joined by
\* blank lines, are longer than 500 characters.
C13_FiveParagraphsMethod4 ==
    mpc = "done" =>
        LET kept == SelectSeq(Paragraphs, LAMBDA i :
                        TextLen(StripText(soup[i].text)) > MinParagraphLen)
            joined == JoinedLen(soup, kept)
        IN  /\ FiveShortParagraphs =>
                  /\ joined = 258
                  /\ article_content.method = 4
            /\ article_content.method = 2 <=>
                  /\ Containers = <<>>
                  /\ Len(Paragraphs) > MinParagraphs
                  /\ joined > MinJoinedLen
            /\ article_content.method = 2 =>
                  article_content = Content(2, kept, Text(0, joined, 0))

\* C13 witness: the document of 5 paragraphs of 50 characters has been
\* through extraction.
C13_Witness ==
    /\ mpc = "done"
    /\ FiveShortParagraphs
    /\ Len(soup) = 5
    /\ article_content.method = 4

\* The first of the blocks at positions cands that no other is longer than.
FirstLongest(cands) ==
    cands[CHOOSE k \in 1..Len(cands) :
            /\ \A m \in 1..Len(cands) :
                  BlockLen(soup, cands[m]) <= BlockLen(soup, cands[k])
            /\ \A m \in 1..(k - 1) :
                  BlockLen(soup, cands[m]) < BlockLen(soup, cands[k])]

\* Methods 1 and 2 failed; cands are the candidates of Method 3: the content
\* is the trimmed text of the first longest candidate if there is one, and
\* the markdown fallback only if there is none.
LargestBlockOf(cands) ==
    (mpc = "done" /\ article_content.method \in {3, 4}) =>
        IF cands # <<>>
        THEN article_content =
                 Content(3, <<FirstLongest(cands)>>,
                         StripText(soup[FirstLongest(cands)].text))
        ELSE article_content.method = 4

\* C18 as stated: when Methods 1 and 2 fail, the candidates are the divs and
\* sections whose trimmed text is not shorter than 200 characters; the
\* content is the full trimmed text of a longest candidate, the first in
\* document order among equals; Method 4 is used only when there is no
\* candidate.
C18_NotShorterThan200 == LargestBlockOf(BlocksLongerThan(MinBlockLen - 1))

\* C18 as amended: when Methods 1 and 2 fail, the candidates are the divs
\* and sections whose trimmed text is longer than 200 characters, one of
\* exactly 200 characters being discarded; the content is the full trimmed
\* text of a longest candidate, the first in document order among equals;
\* Method 4 is used only when there is no candidate.
C18_LongerThan200 == LargestBlockOf(BlocksLongerThan(MinBlockLen))

\* C18 witness: Method 3 chose the first of two longest candidates, after a
\* block of exactly 200 characters and with a shorter candidate around.
C18_Witness ==
    /\ mpc = "done"
    /\ article_content.method = 3
    /\ \E i, j, k, m \in 1..Len(soup) :
          /\ soup[i].tag \in {"div", "section"}
          /\ BlockLen(soup, i) = MinBlockLen
          /\ i < j /\ j < k
          /\ article_content.src = <<j>>
          /\ BlockLen(soup, j) = BlockLen(soup, k)
          /\ soup[k].tag \in {"div", "section"}
          /\ soup[m].tag \in {"div", "section"}
          /\ BlockLen(soup, m) > MinBlockLen
          /\ BlockLen(soup, m) < BlockLen(soup, j)
          /\ TextLen(soup[j].text) > BlockLen(soup, j)

ContNext == Method1 \/ Method2 \/ Method3 \/ Method4

\* ------------------------------------------------ scraper.py: _clean_text

\* Texts are sequences of characters.
Whitespace == {" ", "\n", "\t"}

Digits == {"0", "1", "2", "3", "4", "5", "6", "7", "8", "9"}

UpperCase == <<"A", "B", "C", "D", "E", "F", "G", "H", "I", "J", "K", "L", "M", "N", "O", "P", "Q", "R", "S", "T", "U", "V", "W", "X", "Y", "Z", "Â">>

LowerCase == <<"a", "b", "c", "d", "e", "f", "g", "h", "i", "j", "k", "l", "m", "n", "o", "p", "q", "r", "s", "t", "u", "v", "w", "x", "y", "z", "â">>

\* The character re.IGNORECASE compares in place of c.
Lower(c) ==
    IF \E k \in 1..Len(UpperCase) : UpperCase[k] = c
    THEN LowerCase[CHOOSE k \in 1..Len(UpperCase) : UpperCase[k] = c]
    ELSE c

\* A pattern is a sequence of sets of characters, compared ignoring case.
Literal(chars) == [k \in 1..Len(chars) |-> {Lower(chars[k])}]

\* common_patterns, in the order of the list.
CommonPatterns ==
    << Literal(<<"M", "e", "n", "u">>),
       Literal(<<"S", "e", "a", "r", "c", "h">>),
       Literal(<<"H", "o", "m", "e">>),
       Literal(<<"C", "o", "n", "t", "a", "c", "t">>),
       Literal(<<"A", "b", "o", "u", "t">>),
       Literal(<<"P", "r", "i", "v", "a", "c", "y", " ", "P", "o", "l", "i", "c", "y">>),
       Literal(<<"T", "e", "r", "m", "s", " ", "o", "f", " ", "S", "e", "r", "v", "i", "c", "e">>),
       Literal(<<"Â", "©", " ">>) \o <<Digits, Digits, Digits, Digits>>,
       Literal(<<"A", "l", "l", " ", "R", "i", "g", "h", "t", "s", " ", "R", "e", "s", "e", "r", "v", "e", "d">>),
       Literal(<<"C", "o", "p", "y", "r", "i", "g", "h", "t">>) >>

\* s without its leading whitespace.
RECURSIVE SkipWhitespace(_)
SkipWhitespace(s) ==
    IF s # <<>> /\ Head(s) \in Whitespace THEN SkipWhitespace(Tail(s)) ELSE s

\* re.sub(r'\s+', ' ', text)
RECURSIVE CollapseWhitespace(_)
CollapseWhitespace(s) ==
    IF s = <<>> THEN <<>>
    ELSE IF Head(s) \in Whitespace
    THEN <<" ">> \o CollapseWhitespace(SkipWhitespace(s))
    ELSE <<Head(s)>> \o CollapseWhitespace(Tail(s))

\* The length of the match of \n\s*\n+ at the start of s, 0 when there is
\* none: from a newline to the last newline of the whitespace around it.
BlankLinesAt(s) ==
    IF s = <<>> \/ Head(s) # "\n" THEN 0
    ELSE LET run == Len(s) - Len(SkipWhitespace(s))
             later == {k \in 2..run : s[k] = "\n"}
         IN  IF later = {} THEN 0
             ELSE CHOOSE k \in later : \A m \in later : m <= k

\* re.sub(r'\n\s*\n+', '\n\n', text)
RECURSIVE CollapseBlankLines(_)
CollapseBlankLines(s) ==
    IF s = <<>> THEN <<>>
    ELSE IF BlankLinesAt(s) > 0
    THEN <<"\n", "\n">>
         \o CollapseBlankLines(SubSeq(s, BlankLinesAt(s) + 1, Len(s)))
    ELSE <<Head(s)>> \o CollapseBlankLines(Tail(s))

\* The pattern matches at the start of s.
MatchesAt(s, pattern) ==
    /\ Len(s) >= Len(pattern)
    /\ \A k \in 1..Len(pattern) : Lower(s[k]) \in pattern[k]

\* re.sub(pattern, '', text, flags=re.IGNORECASE): the matches are found
\* left to right in the text as it was, none overlapping another.
RECURSIVE Remove(_, _)
Remove(s, pattern) ==
    IF s = <<>> THEN <<>>
    ELSE IF MatchesAt(s, pattern)
    THEN Remove(SubSeq(s, Len(pattern) + 1, Len(s)), pattern)
    ELSE <<Head(s)>> \o Remove(Tail(s), pattern)

\* for pattern in common_patterns: text = re.sub(pattern, '', text, ...)
RECURSIVE RemoveAll(_, _)
RemoveAll(s, patterns) ==
    IF patterns = <<>> THEN s
    ELSE RemoveAll(Remove(s, Head(patterns)), Tail(patterns))

\* text.split('\n')
RECURSIVE Split(_)
Split(s) ==
    IF \A k \in 1..Len(s) : s[k] # "\n" THEN <<s>>
    ELSE LET k == CHOOSE k \in 1..Len(s) :
                      s[k] = "\n" /\ \A m \in 1..(k - 1) : s[m] # "\n"
         IN  <<SubSeq(s, 1, k - 1)>> \o Split(SubSeq(s, k + 1, Len(s)))

\* s without its trailing whitespace.
RECURSIVE SkipTrailingWhitespace(_)
SkipTrailingWhitespace(s) ==
    IF s # <<>> /\ s[Len(s)] \in Whitespace
    THEN SkipTrailingWhitespace(SubSeq(s, 1, Len(s) - 1))
    ELSE s

\* line.strip()
Strip(s) == SkipTrailingWhitespace(SkipWhitespace(s))

\* '\n\n'.join(cleaned_lines)
RECURSIVE Join(_)
Join(lines) ==
    IF lines = <<>> THEN <<>>
    ELSE IF Len(lines) = 1 THEN lines[1]
    ELSE lines[1] \o <<"\n", "\n">> \o Join(Tail(lines))

\* WebScraper._clean_text
CleanText(s) ==
    LET collapsed == CollapseBlankLines(CollapseWhitespace(s))
        stripped == RemoveAll(collapsed, CommonPatterns)
        lines == Split(stripped)
        cleaned_lines ==
            SelectSeq([k \in 1..Len(lines) |-> Strip(lines[k])],
                      LAMBDA line : line # <<>>)
    IN  Join(cleaned_lines)


\* The pieces the texts given to _clean_text are made of.
Chunks ==
    { <<" ">>, <<"\n">>, <<"x">>, <<"M", "e", "n", "u">>, <<"M", "E">>,
      <<"n", "u">> }

RECURSIVE Flatten(_)
Flatten(chunks) ==
    IF chunks = <<>> THEN <<>> ELSE Head(chunks) \o Flatten(Tail(chunks))

Texts == {Flatten(cs) : cs \in UNION {[1..n -> Chunks] : n \in 0..MaxChunks}}

CleanInit ==
    /\ text \in Texts
    /\ cpc = 0
    /\ cleaned = <<>>
    /\ recleaned = <<>>

\* article_content = self._clean_text(article_content)
Clean ==
    /\ cpc = 0
    /\ cleaned' = CleanText(text)
    /\ cpc' = 1
    /\ UNCHANGED <<text, recleaned>>
    /\ UNCHANGED notClean

\* _clean_text applied to its own output.
CleanAgain ==
    /\ cpc = 1
    /\ recleaned' = CleanText(cleaned)
    /\ cpc' = 2
    /\ UNCHANGED <<text, cleaned>>
    /\ UNCHANGED notClean

CleanNext == Clean \/ CleanAgain

\* --------------------------------------------------- normalizer: claims

\* C14: for every text x, _clean_text applied to its own output changes
\* nothing: clean(clean(x)) = clean(x).
C14_Idempotent == cpc = 2 => recleaned = cleaned

CleanIdle ==
    /\ text = <<>>
    /\ cpc = 0
    /\ cleaned = <<>>
    /\ recleaned = <<>>

\* --------------------------------------- scraper.py: the OGP metadata loop

\* 'og:'
OgPrefix == <<"o", "g", ":">>

\* re.compile('^og:') matches the attribute value s.
StartsWith(s, prefix) ==
    Len(s) >= Len(prefix) /\ SubSeq(s, 1, Len(prefix)) = prefix

\* s.replace(old, ''): every occurrence of old, left to right, is removed.
RECURSIVE Replace(_, _)
Replace(s, old) ==
    IF s = <<>> THEN <<>>
    ELSE IF StartsWith(s, old)
    THEN Replace(SubSeq(s, Len(old) + 1, Len(s)), old)
    ELSE <<Head(s)>> \o Replace(Tail(s), old)

\* A meta element: its property and content attributes, sequences of
\* characters; an absent content attribute reads as the empty one does.
Meta(property, content) == [property |-> property, content |-> content]

Properties ==
    { <<"o", "g", ":", "t", "i", "t", "l", "e">>,
      <<"o", "g", ":", "u", "r", "l">>,
      <<"o", "g", ":", "o", "g", ":", "t", "i", "t", "l", "e">>,
      <<"o", "g", ":">>,
      <<"t", "i", "t", "l", "e">> }

Contents == { <<>>, <<" ">>, <<"A">>, <<" ", "B", " ">> }

MetaKinds == {Meta(pr, co) : pr \in Properties, co \in Contents}

\* soup.find_all('meta', property=re.compile('^og:')), in document order.
OgMetas == SelectSeq(metas, LAMBDA meta : StartsWith(meta.property, OgPrefix))

\* d[key] = value
Put(d, key, value) ==
    [k \in DOMAIN d \cup {key} |-> IF k = key THEN value ELSE d[k]]

\* Mutant: the content is stored whether it is empty or not.
StoreOg_AnyContent(d, meta) ==
    LET property_name == Replace(meta.property, OgPrefix)
    IN  IF property_name # <<>>
        THEN Put(d, property_name, Strip(meta.content))
        ELSE d

\* The body of the OGP loop for one meta element.
StoreOg(d, meta) ==
    LET property_name == Replace(meta.property, OgPrefix)
    IN  IF property_name # <<>> /\ meta.content # <<>>
        THEN Put(d, property_name, Strip(meta.content))
        ELSE d

OgInit ==
    /\ metas \in UNION {[1..n -> MetaKinds] : n \in 0..MaxMetas}
    /\ visited = 0
    /\ og_data = <<>>

\* One pass of the loop over the og: meta elements.
OgVisit ==
    /\ visited < Len(OgMetas)
    /\ og_data' = StoreOg(og_data, OgMetas[visited + 1])
    /\ visited' = visited + 1
    /\ UNCHANGED metas
    /\ UNCHANGED notOg

OgNext == OgVisit

\* ------------------------------------------------------- OGP loop: claims

OgDone == visited = Len(OgMetas)

\* The property with the 'og:' prefix stripped.
PrefixStripped(meta) == SubSeq(meta.property, Len(OgPrefix) + 1,
                               Len(meta.property))

\* The last of the positions in a non-empty set.
Last(positions) == CHOOSE i \in positions : \A j \in positions : j <= i

\* C15 as stated: for every sequence of meta elements whose property starts
\* with 'og:', the map holds for each key, the property with the prefix
\* stripped, the trimmed content of the last element carrying that key,
\* whatever that element's content is.
C15_LastWinsWhateverContent ==
    OgDone =>
        LET og == OgMetas
            carrying(key) ==
                {i \in 1..Len(og) : PrefixStripped(og[i]) = key}
        IN  /\ DOMAIN og_data = {PrefixStripped(og[i]) : i \in 1..Len(og)}
            /\ \A key \in DOMAIN og_data :
                  og_data[key] = Strip(og[Last(carrying(key))].content)

\* C15 as amended: an og: meta element is stored only if its content is not
\* empty and its key, the property with every 'og:' in it removed, is not
\* empty; the map holds for each key the trimmed content of the last stored
\* element carrying it, so that a later element with an empty content does
\* not overwrite an earlier one; og:title 'A' followed by og:title ' B '
\* yields {title: 'B'}.
C15_LastStoredWins ==
    OgDone =>
        LET og == OgMetas
            key(i) == Replace(og[i].property, OgPrefix)
            stored == {i \in 1..Len(og) :
                          key(i) # <<>> /\ og[i].content # <<>>}
            carrying(k) == {i \in stored : key(i) = k}
            title == <<"t", "i", "t", "l", "e">>
        IN  /\ DOMAIN og_data = {key(i) : i \in stored}
            /\ \A k \in DOMAIN og_data :
                  og_data[k] = Strip(og[Last(carrying(k))].content)
            /\ metas = <<Meta(OgPrefix \o title, <<"A">>),
                         Meta(OgPrefix \o title, <<" ", "B", " ">>)>>
               => og_data = Put(<<>>, title, <<"B">>)

\* C15 witness: og:title 'A', then og:title ' B ', then og:title with an
\* empty content: the map is {title: 'B'}.
C15_Witness ==
    /\ OgDone
    /\ Len(metas) = 3
    /\ \A i \in 1..3 : metas[i].property = OgPrefix \o <<"t", "i", "t", "l", "e">>
    /\ metas[1].content = <<"A">>
    /\ metas[2].content = <<" ", "B", " ">>
    /\ metas[3].content = <<>>
    /\ og_data[<<"t", "i", "t", "l", "e">>] = <<"B">>


OgIdle ==
    /\ metas = <<>>
    /\ visited = 0
    /\ og_data = <<>>

\* ---------------------------------------------------------- specifications

ParseIdle == ContIdle /\ CleanIdle /\ OgIdle

Init == LimInit /\ ExecIdle /\ ConcIdle /\ ReqIdle /\ ParseIdle

Next ==
    \/ Tick
    \/ \E c \in Clients : Admit(c)
    \/ Cleanup

Spec == Init /\ [][Next]_vars

InitExec == ExecInit /\ LimIdle /\ ConcIdle /\ ReqIdle /\ ParseIdle

SpecExec == InitExec /\ [][ExecNext]_vars

InitConc == ConcInit /\ ExecIdle /\ ReqIdle /\ ParseIdle

SpecConc == InitConc /\ [][ConcNext]_vars

InitReq == ReqInit /\ LimIdle /\ ExecIdle /\ ConcIdle /\ ParseIdle

SpecReq == InitReq /\ [][ReqNext]_vars

InitCont == ContInit /\ LimIdle /\ ExecIdle /\ ConcIdle /\ ReqIdle
            /\ CleanIdle /\ OgIdle

SpecCont == InitCont /\ [][ContNext]_vars

InitClean == CleanInit /\ LimIdle /\ ExecIdle /\ ConcIdle /\ ReqIdle
             /\ ContIdle /\ OgIdle

SpecClean == InitClean /\ [][CleanNext]_vars

InitOg == OgInit /\ LimIdle /\ ExecIdle /\ ConcIdle /\ ReqIdle
          /\ ContIdle /\ CleanIdle

SpecOg == InitOg /\ [][OgNext]_vars

====
